---- MODULE Spec2Model ----
(***************************************************************************)
(* Model of recipe/static/recipe/ingredientsmenu.js: the document-ready    *)
(* callback that sets the icon of every ".update-on-expand" element to the *)
(* collapsed icon and binds a show.bs.collapse and a hide.bs.collapse      *)
(* handler that swap the icon found under the element's siblings.          *)
(*                                                                         *)
(* The document is a tree of element nodes numbered in document order      *)
(* (depth-first pre-order), 0 standing for the document itself.  jQuery's  *)
(* .siblings(), .find(), .attr() and the bubbling of a triggered event     *)
(* are modelled by what they do on that tree.                              *)
(***************************************************************************)
EXTENDS Integers, Sequences, FiniteSets, TLC

\* Number of element nodes of the document.
MaxNodes == 4

\* Largest number of toggle elements among them.
MaxToggles == 2

Nodes == 1..MaxNodes

\* The document, parent of the top-level elements.
Doc == 0

COLLAPSED_SRC == "http://icons.iconarchive.com/icons/awicons/vista-artistic/128/add-icon.png"

EXPANDED_SRC == "https://cdn1.iconfinder.com/data/icons/basic-ui-elements-color/700/07_minus-128.png"

\* A src value the page's markup may carry that is neither of the two icons.
OTHER_SRC == "markup.png"

\* The src values an image may carry in the markup, before the script runs.
MarkupSrcs == {OTHER_SRC, EXPANDED_SRC}

\* Classes of an element that the script's selectors look at.
ToggleClass == "update-on-expand"

ImageClass == "update-image"

NoClass == "none"

EventTypes == {"show", "hide"}

NoEvent == "none"

VARIABLES
    parent,     \* parent[n]: the parent node of element n (Doc for top level)
    cls,        \* cls[n]: the class of element n the selectors match on
    src,        \* src[n]: the src attribute of element n
    src0,       \* src[n] as the markup had it, before the script ran
    expanded,   \* the set of toggle elements whose panel is currently expanded
    phase,      \* "loading" | "init" | "ready": position of the ready callback
    bound,      \* the elements the two handlers are bound to
    evt,        \* the event being dispatched: [type, origin], NoEvent when none
    path,       \* bound elements on the propagation path still to be called
    cur,        \* the current (or last) updateImage call: [div, val]
    todo,       \* the elements .attr() has still to write in the current call
    lastEvt     \* lastEvt[n]: type of the last event whose handler ran on n

vars == <<parent, cls, src, src0, expanded, phase, bound, evt, path, cur, todo, lastEvt>>

----------------------------------------------------------------------------
\* The DOM tree

RECURSIVE Ancestors(_, _)
\* The strict ancestors of n among the elements (the document excluded).
Ancestors(p, n) ==
    IF p[n] = Doc THEN {} ELSE {p[n]} \cup Ancestors(p, p[n])

\* n is a strict descendant of a.
IsDescendant(n, a) == a \in Ancestors(parent, n)

\* $(".update-on-expand"): the elements matching the toggle selector.
Toggles == {n \in Nodes : cls[n] = ToggleClass}

\* The elements matching ".update-image".
Images == {n \in Nodes : cls[n] = ImageClass}

\* A numbering is a document order iff each node's parent is the document,
\* the previous node, or an ancestor of the previous node.
IsDocumentOrder(p) ==
    /\ p[1] = Doc
    /\ \A n \in Nodes \ {1} :
          p[n] \in {Doc, n - 1} \cup Ancestors(p, n - 1)

\* The sequence of the elements of S in document order (ascending numbers).
RECURSIVE InDocumentOrder(_)
InDocumentOrder(S) ==
    IF S = {} THEN <<>>
    ELSE LET m == CHOOSE x \in S : \A y \in S : x <= y
         IN  <<m>> \o InDocumentOrder(S \ {m})

----------------------------------------------------------------------------
\* jQuery traversal, as updateImage uses it

\* Siblings as .siblings() would be if it looked at the first element of div
\* only, the way jQuery's getters do.
SiblingsFirstOnly(div) ==
    IF div = {} THEN {}
    ELSE LET first == CHOOSE x \in div : \A y \in div : x <= y
         IN  {s \in Nodes : s # first /\ parent[s] = parent[first]}

\* Siblings as .parent().children() would give them: the element included.
SiblingsAndSelf(div) ==
    {s \in Nodes : \E d \in div : parent[s] = parent[d]}

\* div.siblings(): the other children of the parent of each element of div.
Siblings(div) ==
    {s \in Nodes : \E d \in div : s # d /\ parent[s] = parent[d]}

\* Find as .find(sel).addBack(sel) would be: the elements of set that match
\* the selector are included.
FindAddBack(set) ==
    {i \in Nodes : cls[i] = ImageClass /\ \E s \in set : i = s \/ s \in Ancestors(parent, i)}

\* Find as .find("*") would be: every strict descendant, whatever its class.
FindAll(set) ==
    {i \in Nodes : \E s \in set : s \in Ancestors(parent, i)}

\* set.find(".update-image"): the strict descendants of the elements of set
\* that match the selector.
Find(set) ==
    {i \in Nodes : cls[i] = ImageClass /\ \E s \in set : IsDescendant(i, s)}

\* Targets as div.parent().find(".update-image") would give them.
TargetsViaParent(div) ==
    {i \in Nodes : cls[i] = ImageClass /\
        \E d \in div : parent[d] = Doc \/ parent[d] \in Ancestors(parent, i)}

\* div.siblings().find(".update-image"): the elements updateImage writes.
Targets(div) == Find(Siblings(div))

----------------------------------------------------------------------------
\* Event dispatch

\* Idle as it would be if the runtime took an event at any time.
IdleAlways == TRUE

\* No event is being dispatched and no handler is running or waiting: the
\* runtime may take the next event.
Idle == phase = "ready" /\ evt.type = NoEvent /\ path = <<>> /\ todo = <<>>

\* HandlerSrc with both handlers passing COLLAPSED_SRC.
HandlerSrcCollapsedOnly(type) == COLLAPSED_SRC

\* HandlerSrc with both handlers passing EXPANDED_SRC.
HandlerSrcExpandedOnly(type) == EXPANDED_SRC

\* The src each handler passes to updateImage.
HandlerSrc(type) == IF type = "show" THEN EXPANDED_SRC ELSE COLLAPSED_SRC

\* PropagationPath as it would be with delegated handlers,
\* $(document).on(type, ".update-on-expand", ...): every element that has
\* the class when the event is triggered is reached.
PropagationPathDelegated(origin) ==
    LET reached == ({origin} \cup Ancestors(parent, origin)) \cap Toggles
        seq == InDocumentOrder(reached)
    IN  [k \in 1..Len(seq) |-> seq[Len(seq) + 1 - k]]

\* The bound elements an event triggered on origin reaches while bubbling,
\* innermost first: origin itself, then its ancestors up to the document.
PropagationPath(origin) ==
    LET reached == ({origin} \cup Ancestors(parent, origin)) \cap bound
        seq == InDocumentOrder(reached)
    IN  [k \in 1..Len(seq) |-> seq[Len(seq) + 1 - k]]

----------------------------------------------------------------------------
TypeOK ==
    /\ parent \in [Nodes -> Nodes \cup {Doc}]
    /\ cls \in [Nodes -> {NoClass, ToggleClass, ImageClass}]
    /\ src \in [Nodes -> {OTHER_SRC, COLLAPSED_SRC, EXPANDED_SRC}]
    /\ src0 \in [Nodes -> MarkupSrcs]
    /\ expanded \subseteq Toggles
    /\ phase \in {"loading", "init", "ready"}
    /\ bound \subseteq Nodes
    /\ evt \in [type : EventTypes \cup {NoEvent}, origin : Nodes \cup {Doc}]
    /\ path \in Seq(Nodes)
    /\ cur \in [div : SUBSET Nodes, val : {COLLAPSED_SRC, EXPANDED_SRC}]
    /\ todo \in Seq(Nodes)
    /\ lastEvt \in [Nodes -> EventTypes \cup {NoEvent}]

\* The page as loaded, before the ready callback has run: any document tree
\* of MaxNodes elements, any classes (an image is an element without
\* children, at most MaxToggles elements are toggles), any markup src on the
\* images, and any subset of the toggles already expanded.
Init ==
    /\ parent \in {p \in [Nodes -> Nodes \cup {Doc}] : IsDocumentOrder(p)}
    /\ cls \in {c \in [Nodes -> {NoClass, ToggleClass, ImageClass}] :
                  /\ \A n \in Nodes : c[n] = ImageClass => \A m \in Nodes : parent[m] # n
                  /\ Cardinality({n \in Nodes : c[n] = ToggleClass}) <= MaxToggles}
    /\ src \in {s \in [Nodes -> MarkupSrcs] :
                  \A n \in Nodes : cls[n] # ImageClass => s[n] = OTHER_SRC}
    /\ src0 = src
    /\ expanded \in SUBSET Toggles
    /\ phase = "loading"
    /\ bound = {}
    /\ evt = [type |-> NoEvent, origin |-> Doc]
    /\ path = <<>>
    /\ cur = [div |-> {}, val |-> COLLAPSED_SRC]
    /\ todo = <<>>
    /\ lastEvt = [n \in Nodes |-> NoEvent]

\* updateImage(div, val) up to .attr(): select the targets; .attr() then
\* writes them one by one (AttrStep).
CallUpdateImage(div, val) ==
    /\ cur' = [div |-> div, val |-> val]
    /\ todo' = InDocumentOrder(Targets(div))

\* The ready callback starts: updateImage($(".update-on-expand"), COLLAPSED_SRC).
ReadyStart ==
    /\ phase = "loading"
    /\ phase' = "init"
    /\ CallUpdateImage(Toggles, COLLAPSED_SRC)
    /\ UNCHANGED <<parent, cls, src, src0, expanded, bound, evt, path, lastEvt>>

\* AttrStep as it would be if the handlers flipped the icon instead of
\* setting it.
AttrStepToggle ==
    /\ todo # <<>>
    /\ src' = [src EXCEPT ![Head(todo)] =
                  IF src[Head(todo)] = COLLAPSED_SRC THEN EXPANDED_SRC ELSE COLLAPSED_SRC]
    /\ todo' = Tail(todo)
    /\ UNCHANGED <<parent, cls, src0, expanded, phase, bound, evt, path, cur, lastEvt>>

\* .attr("src", val) writes the next element of the matched set.
AttrStep ==
    /\ todo # <<>>
    /\ src' = [src EXCEPT ![Head(todo)] = cur.val]
    /\ todo' = Tail(todo)
    /\ UNCHANGED <<parent, cls, src0, expanded, phase, bound, evt, path, cur, lastEvt>>

\* The ready callback binds both handlers to $(".update-on-expand") and returns.
BindHandlers ==
    /\ phase = "init"
    /\ todo = <<>>
    /\ bound' = Toggles
    /\ phase' = "ready"
    /\ UNCHANGED <<parent, cls, src, src0, expanded, evt, path, cur, todo, lastEvt>>

\* The collapse plugin triggers show.bs.collapse or hide.bs.collapse on
\* origin, a toggle or a collapsible element inside one (an event triggered
\* anywhere else reaches no toggle): the panel's status changes and the
\* event starts to bubble.
Dispatch(origin, type) ==
    /\ Idle
    /\ (Toggles \cap ({origin} \cup Ancestors(parent, origin))) # {}
    /\ evt' = [type |-> type, origin |-> origin]
    /\ path' = PropagationPath(origin)
    /\ expanded' = IF cls[origin] # ToggleClass THEN expanded
                   ELSE IF type = "show" THEN expanded \cup {origin}
                   ELSE expanded \ {origin}
    /\ UNCHANGED <<parent, cls, src, src0, phase, bound, cur, todo, lastEvt>>

\* The handler bound to the next element on the propagation path is called
\* with this = that element: updateImage($(this), EXPANDED_SRC or COLLAPSED_SRC).
HandlerStart ==
    /\ path # <<>>
    /\ todo = <<>>
    /\ CallUpdateImage({Head(path)}, HandlerSrc(evt.type))
    /\ lastEvt' = [lastEvt EXCEPT ![Head(path)] = evt.type]
    /\ path' = Tail(path)
    /\ UNCHANGED <<parent, cls, src, src0, expanded, phase, bound, evt>>

\* Every handler on the propagation path has returned: trigger() returns
\* and control goes back to the runtime.
Return ==
    /\ phase = "ready"
    /\ evt.type # NoEvent
    /\ path = <<>>
    /\ todo = <<>>
    /\ evt' = [type |-> NoEvent, origin |-> Doc]
    /\ UNCHANGED <<parent, cls, src, src0, expanded, phase, bound, path, cur, todo, lastEvt>>

Next ==
    \/ ReadyStart
    \/ AttrStep
    \/ BindHandlers
    \/ \E origin \in Nodes, type \in EventTypes : Dispatch(origin, type)
    \/ HandlerStart
    \/ Return

Spec == Init /\ [][Next]_vars

\* Another script of the page adds a toggle after the ready callback has
\* run: the element at position n, which matched neither selector when
\* $(".update-on-expand") was evaluated, is a toggle from now on.  Nothing
\* of ingredientsmenu.js runs: the selections of lines 7, 9 and 13 are not
\* evaluated again.
AddToggle(n) ==
    /\ Idle
    /\ cls[n] = NoClass
    /\ Cardinality(Toggles) < MaxToggles
    /\ cls' = [cls EXCEPT ![n] = ToggleClass]
    /\ UNCHANGED <<parent, src, src0, expanded, phase, bound, evt, path, cur, todo, lastEvt>>

NextLate ==
    \/ Next
    \/ \E n \in Nodes : AddToggle(n)

\* The page as loaded with every panel collapsed, the collapse plugin's
\* default, and fewer than MaxToggles toggles, so that one can be added.
InitLate == Init /\ expanded = {} /\ Cardinality(Toggles) < MaxToggles

\* The page with toggles added after ready.
SpecLate == InitLate /\ [][NextLate]_vars

----------------------------------------------------------------------------
\* Vocabulary of the properties, stated on the tree itself

\* The images nested inside a sibling of toggle t: "t's sibling images".
SiblingImagesOf(t) ==
    {i \in Nodes : cls[i] = ImageClass /\
        \E s \in Nodes : s # t /\ parent[s] = parent[t] /\ s \in Ancestors(parent, i)}

\* The images that are themselves siblings of toggle t.
DirectSiblingImagesOf(t) ==
    {i \in Nodes : cls[i] = ImageClass /\ i # t /\ parent[i] = parent[t]}

\* The icon that goes with an event type (no event: the collapsed icon).
IconOf(type) == IF type = "show" THEN EXPANDED_SRC ELSE COLLAPSED_SRC

\* No handler has run yet.
NoEventHandled == \A n \in Nodes : lastEvt[n] = NoEvent

\* The dispatch of the current event has called every handler on its path.
DispatchDone == phase = "ready" /\ evt.type # NoEvent /\ path = <<>> /\ todo = <<>>

----------------------------------------------------------------------------
\* C1: once the ready callback has run (and before any event is handled),
\* every sibling image of every toggle present at load carries the
\* collapsed icon, whatever the markup gave it.
C1_InitCollapsed ==
    (phase = "ready" /\ NoEventHandled) =>
        \A t \in Toggles : \A i \in SiblingImagesOf(t) : src[i] = COLLAPSED_SRC

C1_Witness ==
    /\ phase = "ready"
    /\ NoEventHandled
    /\ \E t \in Toggles : \E i \in SiblingImagesOf(t) :
          src0[i] = EXPANDED_SRC /\ src[i] = COLLAPSED_SRC

\* C2: when the dispatch of an expand event triggered on a bound toggle is
\* done, that toggle's sibling images carry the expanded icon.
C2_ExpandSetsExpanded ==
    (DispatchDone /\ evt.type = "show" /\ evt.origin \in bound) =>
        \A i \in SiblingImagesOf(evt.origin) : src[i] = EXPANDED_SRC

C2_Witness ==
    /\ DispatchDone
    /\ evt.type = "show"
    /\ evt.origin \in bound
    /\ \E i \in SiblingImagesOf(evt.origin) : src[i] = EXPANDED_SRC

\* C3: when the dispatch of a collapse event triggered on a bound toggle is
\* done, that toggle's sibling images carry the collapsed icon again.
C3_CollapseSetsCollapsed ==
    (DispatchDone /\ evt.type = "hide" /\ evt.origin \in bound) =>
        \A i \in SiblingImagesOf(evt.origin) : src[i] = COLLAPSED_SRC

\* The collapse follows an expand of another toggle, whose icon stays expanded.
C3_Witness ==
    /\ DispatchDone
    /\ evt.type = "hide"
    /\ evt.origin \in bound
    /\ \E i \in SiblingImagesOf(evt.origin) : src[i] = COLLAPSED_SRC
    /\ \E u \in bound, j \in Nodes :
          u # evt.origin /\ j \in SiblingImagesOf(u) /\ src[j] = EXPANDED_SRC

C5_SyncWithStatus ==
    Idle =>
        \A t \in bound : \A i \in SiblingImagesOf(t) :
            src[i] = IF t \in expanded THEN EXPANDED_SRC ELSE COLLAPSED_SRC

\* C6: a call of updateImage for elements none of which has a sibling image
\* changes no src: a step that changes a src is taken under a call for an
\* element that has a sibling image.
C6_NoTargetNoWrite ==
    [][src' # src => \E d \in cur'.div : SiblingImagesOf(d) # {}]_vars

\* An expand event was handled on a toggle without sibling image while
\* another toggle's image carries the collapsed icon.
C6_Witness ==
    /\ DispatchDone
    /\ evt.type = "show"
    /\ evt.origin \in bound
    /\ cur.div = {evt.origin}
    /\ SiblingImagesOf(evt.origin) = {}
    /\ \E i \in Images : src[i] = COLLAPSED_SRC

\* C7 (as claimed): while the handler of the toggle the event was triggered
\* on runs, the sibling images of every other toggle keep their src.
C7_OtherTogglesUntouched ==
    [][(phase = "ready" /\ evt.type # NoEvent /\ cur.div = {evt.origin}) =>
          \A b \in Toggles \ {evt.origin} : \A i \in SiblingImagesOf(b) :
              src'[i] = src[i]]_vars

\* C7 (amended): a call of updateImage changes the src of no element other
\* than the images nested inside a sibling of an element it was called for:
\* every element whose src changes is such an image.
C7_WritesOnlyOwnSiblingImages ==
    [][\A i \in Nodes :
          src'[i] # src[i] => \E d \in cur.div : i \in SiblingImagesOf(d)]_vars

\* Toggle a was expanded and its icon changed; the icon of toggle b did not.
C7_Witness ==
    /\ DispatchDone
    /\ evt.type = "show"
    /\ \E a \in bound, b \in bound :
          /\ a # b
          /\ a = evt.origin
          /\ \E i \in SiblingImagesOf(a) : src[i] = EXPANDED_SRC
          /\ \E j \in SiblingImagesOf(b) \ SiblingImagesOf(a) : src[j] = COLLAPSED_SRC

\* C8: the runtime takes an event only when the latest call of updateImage
\* has written all of its targets: nothing is left to write and every
\* target carries the value of that call.
C8_RunToCompletion ==
    [][(evt.type = NoEvent /\ evt'.type # NoEvent) =>
          /\ todo = <<>>
          /\ path = <<>>
          /\ \A d \in cur.div : \A i \in SiblingImagesOf(d) : src[i] = cur.val]_vars

\* An event has just been taken, no handler of it called yet, and the
\* latest call was a handler's that had two images to write.
C8_Witness ==
    /\ evt.type # NoEvent
    /\ path # <<>>
    /\ path = PropagationPath(evt.origin)
    /\ ~NoEventHandled
    /\ cur.val = EXPANDED_SRC
    /\ \E d \in cur.div : Cardinality(SiblingImagesOf(d)) >= 2

\* C9 (as claimed): once the ready callback has run, an image that is
\* itself a sibling of a toggle carries the collapsed icon.
C9_DirectSiblingInit ==
    (phase = "ready" /\ NoEventHandled) =>
        \A t \in Toggles : \A i \in DirectSiblingImagesOf(t) : src[i] = COLLAPSED_SRC

\* C9 (amended): an image that is itself a sibling of a toggle keeps the
\* src of the markup unless it is also nested inside a sibling of a toggle.
C9_DirectSiblingUntouched ==
    \A t \in Toggles : \A i \in DirectSiblingImagesOf(t) :
        src[i] # src0[i] => \E u \in Toggles : i \in SiblingImagesOf(u)

C9_Witness ==
    /\ DispatchDone
    /\ evt.type = "show"
    /\ evt.origin \in bound
    /\ \E i \in DirectSiblingImagesOf(evt.origin) :
          /\ \A u \in Toggles : i \notin SiblingImagesOf(u)
          /\ src[i] = OTHER_SRC

\* C10 (as claimed): while an event triggered on a toggle nested inside
\* another toggle is dispatched, the sibling images of the outer toggle
\* keep their src.
C10_OuterToggleUntouched ==
    [][(phase = "ready" /\ evt.type # NoEvent /\ evt.origin \in Toggles) =>
          \A o \in Toggles \cap Ancestors(parent, evt.origin) :
              \A i \in SiblingImagesOf(o) : src'[i] = src[i]]_vars

\* C11: a toggle added after the ready callback has run is neither
\* initialized nor bound: the step that adds it changes no src and no
\* binding, and no step of the dispatch of an event triggered on it (no
\* bound toggle among its ancestors) changes a src; a toggle bound at ready
\* still responds: when the dispatch of an event triggered on it returns,
\* its sibling images carry the icon of that event.
C11_LateToggleNotBound ==
    [][/\ cls' # cls => (src' = src /\ bound' = bound /\ todo' = <<>>)
       /\ (/\ evt.type # NoEvent
           /\ evt.origin \in Toggles \ bound
           /\ bound \cap Ancestors(parent, evt.origin) = {}) => src' = src
       /\ (/\ evt.type # NoEvent
           /\ evt'.type = NoEvent
           /\ evt.origin \in bound) =>
               \A i \in SiblingImagesOf(evt.origin) : src[i] = IconOf(evt.type)]_vars

\* An expand event was dispatched on a late toggle whose sibling image still
\* carries the markup src, while a bound toggle's image shows the expanded icon.
C11_Witness ==
    /\ DispatchDone
    /\ evt.type = "show"
    /\ evt.origin \in Toggles \ bound
    /\ bound \cap Ancestors(parent, evt.origin) = {}
    /\ \E i \in SiblingImagesOf(evt.origin) : src[i] = OTHER_SRC
    /\ \E b \in bound : \E j \in SiblingImagesOf(b) : src[j] = EXPANDED_SRC

\* C12: in every state after initialization, an image nested inside a
\* sibling of a toggle that was present at ready carries one of the two
\* icon URLs, and every other element has the src the markup gave it.
C12_WriteSetAndValues ==
    phase = "ready" =>
        \A n \in Nodes :
            IF cls[n] = ImageClass /\ \E t \in bound : n \in SiblingImagesOf(t)
            THEN src[n] \in {COLLAPSED_SRC, EXPANDED_SRC}
            ELSE src[n] = src0[n]

\* After an expand event was handled, the toggle's image shows the expanded
\* icon, an image no bound toggle has for sibling image still has the
\* expanded icon the markup gave it, and an element that is no image has
\* its markup src.
C12_Witness ==
    /\ DispatchDone
    /\ evt.type = "show"
    /\ evt.origin \in bound
    /\ \E i \in SiblingImagesOf(evt.origin) : src[i] = EXPANDED_SRC
    /\ \E n \in Images :
          /\ \A t \in bound : n \notin SiblingImagesOf(t)
          /\ src0[n] = EXPANDED_SRC
          /\ src[n] = EXPANDED_SRC
    /\ \E m \in Nodes : cls[m] = NoClass /\ src[m] = OTHER_SRC

====
